---------------------------- MODULE Spec2Model ----------------------------
(***************************************************************************)
(* Schedule validation (cloud_backend/utils/validation.py), the device's   *)
(* local validation (device_fleet/utils/validation.py), the executor       *)
(* (device_fleet/utils/schedule_executor.py), the battery daemon's         *)
(* distribution and execution loops                                        *)
(* (device_fleet/daemon/battery_daemon.py) and the authority's schedule    *)
(* store (cloud_backend/services/schedule_service.py).                     *)
(*                                                                         *)
(* A timestamp string "2025-12-25THH:MM:SS[.fff][suffix]" is the record    *)
(* [wall, frac, sfx]: wall is the wall-clock reading in seconds counted    *)
(* from 2025-12-25T00:00:00, frac the fractional part as written ("" when  *)
(* absent) and sfx the zone suffix as written ("" when absent).            *)
(* A datetime is [aware, wall, ms, off]: aware tells whether it carries a  *)
(* tzinfo, off is its UTC offset in seconds.                               *)
(***************************************************************************)
EXTENDS Integers, Sequences, FiniteSets, TLC

VARIABLES
    schedule,          \* validator: the list handed to validate_schedule
    outcome,           \* validator: what validate_schedule did with it
    vpc,               \* validator: "ready" before a call, then the call made:
                       \* "done" after validate_schedule, "local" after the
                       \* device's check of the same list, "cleaned" after
                       \* clean_schedule, "recleaned" and "revalidated" after
                       \* the cleaned list went through clean or validate
    local_outcome,     \* what validate_schedule_locally returned for schedule
    cleaned,           \* what clean_schedule did with schedule
    recleaned          \* what clean_schedule did with the list cleaned holds

VARIABLES
    command,           \* executor: the arguments of one execute_command call
    command_result,    \* executor: what the call returned or raised
    xpc                \* executor: "ready" before the call, "done" after

VARIABLES
    cloud_rows,        \* ScheduleService: rows of the schedules table
    cloud_ret          \* ScheduleService: what the last call returned or raised

VARIABLES
    now,               \* datetime.utcnow(), seconds on the wall-clock scale
    running,           \* BatteryDaemon.running
    main_pc,           \* start(): "constructed", "loading", "serving", "stopped"
    mqtt_up,           \* the broker client's network thread is running
    current_schedule,  \* BatteryDaemon.current_schedule (None is <<>>)
    db,                \* rows of the local schedules table: [schedule_data, status]
    boot_db,           \* the rows of that table when the process was started
    poll_pc,           \* poll task: "sleep", "failed", "rejected", "store"
    poll_sched,        \* poll task: the schedule argument of _process_schedule
    mqtt_pc,           \* broker thread: "idle", "dropped", "rejected", "store"
    mqtt_sched,        \* broker thread: the schedule of the payload in hand
    mqtt_device,       \* broker thread: the device_id of the payload in hand
    exec_pc,           \* execute task: "sleep", "execute", "ack", "dead"
    wake_at,           \* execute task: when its sleep(30) ends
    tick,              \* execute task: locals of the tick in flight, with the
                       \* executor's result and the acknowledgement payload
    executor_calls,    \* every call of ScheduleExecutor.execute_command
    acks,              \* the entry index of every acknowledgement POST attempted
    execution_logs,    \* rows of the local execution_logs table
    arrivals,          \* number of fetch responses and pushed messages so far
    activation,        \* number of assignments to current_schedule so far
    writers,           \* contexts that assigned current_schedule or wrote db
    store_hist,        \* the schedule last committed; whether two calls of
                       \* _process_schedule were ever in progress together;
                       \* whether a call of _store_schedule ended in an error
    restarts           \* number of times the killed process was started again

vvars == <<schedule, outcome, vpc, local_outcome, cleaned, recleaned>>

xvars == <<command, command_result, xpc>>

cvars == <<cloud_rows, cloud_ret>>

avars == <<now, running, main_pc, mqtt_up, current_schedule, db, boot_db,
           poll_pc, poll_sched, mqtt_pc, mqtt_sched, mqtt_device, exec_pc, wake_at, tick,
           executor_calls, acks, execution_logs, arrivals, activation, writers,
           store_hist, restarts>>

\* What an action of the daemon leaves alone.
nonagent == <<vvars, xvars, cvars>>

vars == <<vvars, xvars, cvars, avars>>

-----------------------------------------------------------------------------
(* Program constants of ScheduleValidator *)

MIN_RATE_KW == 0
MAX_RATE_KW == 1000
VALID_MODES == {1, 2}
MIN_INTERVAL_MINUTES == 1
MAX_INTERVAL_HOURS == 24

required_fields == <<"start_time", "end_time", "mode", "rate_kw">>

-----------------------------------------------------------------------------
(* Python values of the mode and rate_kw fields: [ty, v].                  *)
(* ty "int": the integer v; ty "str": the decimal string of v;             *)
(* ty "none": None.                                                        *)

PyInt(n) == [ty |-> "int", v |-> n]
PyStr(n) == [ty |-> "str", v |-> n]
NoneVal == [ty |-> "none", v |-> 0]

\* isinstance(x, int)
IsInstanceInt(x) == x.ty = "int"

\* float(x): raises TypeError for None (caught by the caller); a decimal
\* string converts to its number.
FloatRaises(x) == x.ty = "none"
FloatOf(x) == x.v

-----------------------------------------------------------------------------
(* datetime.strptime and ScheduleValidator._parse_timestamp *)

OffsetSeconds(sfx) ==
    CASE sfx = "+00:00" -> 0
      [] sfx = "+01:00" -> 3600
      [] OTHER -> 0

IsOffset(sfx) == sfx \in {"+00:00", "+01:00"}

FracMs(frac) == IF frac = ".500" THEN 500 ELSE 0

NoDt == [aware |-> FALSE, wall |-> 0, ms |-> 0, off |-> 0]

formats == << "%Y-%m-%dT%H:%M:%SZ",
              "%Y-%m-%dT%H:%M:%S%z",
              "%Y-%m-%dT%H:%M:%S",
              "%Y-%m-%dT%H:%M:%S.%fZ",
              "%Y-%m-%dT%H:%M:%S.%f" >>

\* Whether strptime(ts, fmt) succeeds.  A literal Z in the format matches
\* the letter only; %z matches an offset and also the letter Z.
strptime_matches(ts, fmt) ==
    CASE fmt = "%Y-%m-%dT%H:%M:%SZ"     -> ts.frac = "" /\ ts.sfx = "Z"
      [] fmt = "%Y-%m-%dT%H:%M:%S%z"    -> ts.frac = "" /\ (IsOffset(ts.sfx) \/ ts.sfx = "Z")
      [] fmt = "%Y-%m-%dT%H:%M:%S"      -> ts.frac = "" /\ ts.sfx = ""
      [] fmt = "%Y-%m-%dT%H:%M:%S.%fZ"  -> ts.frac # "" /\ ts.sfx = "Z"
      [] fmt = "%Y-%m-%dT%H:%M:%S.%f"   -> ts.frac # "" /\ ts.sfx = ""
      [] OTHER -> FALSE

\* The datetime strptime(ts, fmt) returns: aware only under %z.
strptime(ts, fmt) ==
    [aware |-> fmt = "%Y-%m-%dT%H:%M:%S%z",
     wall  |-> ts.wall,
     ms    |-> FracMs(ts.frac),
     off   |-> IF fmt = "%Y-%m-%dT%H:%M:%S%z" THEN OffsetSeconds(ts.sfx) ELSE 0]

RECURSIVE parse_from(_, _)
parse_from(ts, k) ==
    IF k > Len(formats) THEN [ok |-> FALSE, dt |-> NoDt]
    ELSE IF strptime_matches(ts, formats[k])
         THEN [ok |-> TRUE, dt |-> strptime(ts, formats[k])]
         ELSE parse_from(ts, k + 1)

\* ok = FALSE stands for the ValueError "Unable to parse timestamp".
parse_timestamp(ts) == parse_from(ts, 1)

\* Ordering and subtraction of two datetimes raise TypeError when one is
\* offset-naive and the other offset-aware.
Comparable(d1, d2) == d1.aware = d2.aware

\* Position of a datetime on its own time line, in milliseconds: aware
\* datetimes are compared as UTC instants, naive ones as wall-clock readings.
Key(d) == (d.wall - (IF d.aware THEN d.off ELSE 0)) * 1000 + d.ms

-----------------------------------------------------------------------------
(* Per-entry checks.  A check returns [raised, valid, error]; raised means *)
(* an exception left the function.  An error message is [kind, a, b]:      *)
(* a and b are the entry indices it names (-1 when it names none).         *)

Msg(kind, a, b) == [kind |-> kind, a |-> a, b |-> b]
Passed == [raised |-> FALSE, valid |-> TRUE, error |-> Msg("none", -1, -1)]
Failed(kind, i) == [raised |-> FALSE, valid |-> FALSE, error |-> Msg(kind, i, -1)]
Raised == [raised |-> TRUE, valid |-> FALSE, error |-> Msg("TypeError", -1, -1)]

validate_timestamps(start_time, end_time, i) ==
    LET ps == parse_timestamp(start_time)
        pe == parse_timestamp(end_time)
    IN  IF ~ps.ok \/ ~pe.ok THEN Failed("timestamp_format", i)
        ELSE IF ~Comparable(ps.dt, pe.dt) THEN Raised
        ELSE IF Key(ps.dt) >= Key(pe.dt) THEN Failed("start_before_end", i)
        ELSE IF Key(pe.dt) - Key(ps.dt) < MIN_INTERVAL_MINUTES * 60 * 1000
             THEN Failed("too_short", i)
        ELSE IF Key(pe.dt) - Key(ps.dt) > MAX_INTERVAL_HOURS * 60 * 60 * 1000
             THEN Failed("too_long", i)
        ELSE Passed

validate_mode(mode, i) ==
    IF ~IsInstanceInt(mode) THEN Failed("mode_type", i)
    ELSE IF mode.v \notin VALID_MODES THEN Failed("mode_value", i)
    ELSE Passed

validate_rate(rate_kw, i) ==
    IF FloatRaises(rate_kw) THEN Failed("rate_type", i)
    ELSE IF FloatOf(rate_kw) < MIN_RATE_KW THEN Failed("rate_low", i)
    ELSE IF FloatOf(rate_kw) > MAX_RATE_KW THEN Failed("rate_high", i)
    ELSE Passed

validate_schedule_entry(entry, i) ==
    IF \E k \in 1..Len(required_fields) : required_fields[k] \notin DOMAIN entry
    THEN Failed("missing_field", i)
    ELSE LET t == validate_timestamps(entry.start_time, entry.end_time, i)
             m == validate_mode(entry.mode, i)
             r == validate_rate(entry.rate_kw, i)
         IN  IF t.raised \/ ~t.valid THEN t
             ELSE IF ~m.valid THEN m
             ELSE r

-----------------------------------------------------------------------------
(* Whole-schedule checks.  parsed_times holds one [start, end, idx] per    *)
(* entry that passed the per-entry checks; idx is the entry's 0-based      *)
(* position in the input.                                                  *)

Front(s) == SubSeq(s, 1, Len(s) - 1)

\* sorted(parsed_times, key=lambda x: x[0]) compares start datetimes; the
\* comparison raises TypeError as soon as a naive start meets an aware one,
\* which every sort of a list holding both kinds does.
sort_raises(parsed_times) ==
    \E i, j \in 1..Len(parsed_times) :
        ~Comparable(parsed_times[i].start, parsed_times[j].start)

RECURSIVE insert_by_start(_, _)
insert_by_start(x, s) ==
    IF s = <<>> THEN <<x>>
    ELSE IF Key(s[Len(s)].start) <= Key(x.start) THEN Append(s, x)
    ELSE Append(insert_by_start(x, Front(s)), s[Len(s)])

\* Python's sort is stable: entries with equal starts keep their input order.
RECURSIVE sorted_by_start(_)
sorted_by_start(parsed_times) ==
    IF parsed_times = <<>> THEN <<>>
    ELSE insert_by_start(parsed_times[Len(parsed_times)],
                         sorted_by_start(Front(parsed_times)))

\* check_overlaps with the sweep stopping one pair early
\* (range(len(sorted_times) - 2)).
check_overlaps_skip_last(parsed_times) ==
    LET st == sorted_by_start(parsed_times)
        pairs == [i \in 1..(Len(st) - 2) |->
                     [hit |-> Key(st[i].end) > Key(st[i + 1].start),
                      msg |-> Msg("overlap", st[i].idx, st[i + 1].idx)]]
        IsHit(p) == p.hit
        hits == SelectSeq(pairs, IsHit)
    IN  [k \in 1..Len(hits) |-> hits[k].msg]

\* check_overlaps with end1 >= start2 for end1 > start2.
check_overlaps_touching(parsed_times) ==
    LET st == sorted_by_start(parsed_times)
        pairs == [i \in 1..(Len(st) - 1) |->
                     [hit |-> Key(st[i].end) >= Key(st[i + 1].start),
                      msg |-> Msg("overlap", st[i].idx, st[i + 1].idx)]]
        IsHit(p) == p.hit
        hits == SelectSeq(pairs, IsHit)
    IN  [k \in 1..Len(hits) |-> hits[k].msg]

\* for i in range(len(sorted_times) - 1): if end1 > start2: errors.append(...)
check_overlaps(parsed_times) ==
    LET st == sorted_by_start(parsed_times)
        hit(i) == Key(st[i].end) > Key(st[i + 1].start)
        pairs == [i \in 1..(Len(st) - 1) |->
                     [hit |-> hit(i),
                      msg |-> Msg("overlap", st[i].idx, st[i + 1].idx)]]
        IsHit(p) == p.hit
        hits == SelectSeq(pairs, IsHit)
    IN  [k \in 1..Len(hits) |-> hits[k].msg]

\* for i in range(len(sorted_times) - 1): if end1 != start2: warnings.append(...)
check_sequential(parsed_times) ==
    LET st == sorted_by_start(parsed_times)
        pairs == [i \in 1..(Len(st) - 1) |->
                     [hit |-> Key(st[i].end) # Key(st[i + 1].start),
                      msg |-> IF Key(st[i + 1].start) - Key(st[i].end) > 0
                              THEN Msg("gap_warning", st[i].idx, st[i + 1].idx)
                              ELSE Msg("overlap_warning", st[i].idx, st[i + 1].idx)]]
        IsHit(p) == p.hit
        hits == SelectSeq(pairs, IsHit)
    IN  [k \in 1..Len(hits) |-> hits[k].msg]

Result(ok, errors) == [raised |-> FALSE, ok |-> ok, errors |-> errors]
RaisedTypeError == [raised |-> TRUE, ok |-> FALSE, errors |-> <<>>]

\* ScheduleValidator.validate_schedule: the structured result, or
\* RaisedTypeError when an exception escapes the call.
validate_schedule(sched) ==
    LET n == Len(sched)
        checks == [i \in 1..n |-> validate_schedule_entry(sched[i], i - 1)]
        rows == [i \in 1..n |-> [chk |-> checks[i], i |-> i]]
        IsBad(r) == ~r.chk.valid
        IsGood(r) == r.chk.valid
        bad == SelectSeq(rows, IsBad)
        good == SelectSeq(rows, IsGood)
        errors == [k \in 1..Len(bad) |-> bad[k].chk.error]
        parsed_times == [k \in 1..Len(good) |->
                            [start |-> parse_timestamp(sched[good[k].i].start_time).dt,
                             end   |-> parse_timestamp(sched[good[k].i].end_time).dt,
                             idx   |-> good[k].i - 1]]
    IN  IF n = 0 THEN Result(FALSE, <<Msg("empty", -1, -1)>>)
        ELSE IF \E i \in 1..n : checks[i].raised THEN RaisedTypeError
        ELSE IF errors # <<>> THEN Result(FALSE, errors)
        ELSE IF sort_raises(parsed_times) THEN RaisedTypeError
        ELSE LET all == check_overlaps(parsed_times) \o check_sequential(parsed_times)
             IN  Result(all = <<>>, all)

\* One item of the warnings clean_schedule returns: the error of a dropped
\* entry inside "Entry i invalid: ...", or an error of validate_schedule as
\* it came.
EntryInvalid(error) == [wrapped |-> TRUE, msg |-> error]
Extended(error) == [wrapped |-> FALSE, msg |-> error]

CleanResult(entries, warnings) ==
    [raised |-> FALSE, cleaned |-> entries, warnings |-> warnings]
CleanRaisedTypeError == [raised |-> TRUE, cleaned |-> <<>>, warnings |-> <<>>]

\* clean_schedule appending every entry to cleaned, valid or not.
clean_schedule_keep_all(sched) ==
    LET n == Len(sched)
        checks == [i \in 1..n |-> validate_schedule_entry(sched[i], i - 1)]
        IsBad(c) == ~c.valid
        bad == SelectSeq(checks, IsBad)
        dropped == [k \in 1..Len(bad) |-> EntryInvalid(bad[k].error)]
    IN  IF \E i \in 1..n : checks[i].raised THEN CleanRaisedTypeError
        ELSE CleanResult(sched, dropped)

\* The warnings after validate_schedule(cleaned) returned again.
with_errors_of(again, entries, dropped) ==
    IF again.raised THEN CleanRaisedTypeError
    ELSE IF ~again.ok
    THEN CleanResult(entries, dropped \o [k \in 1..Len(again.errors) |->
                                              Extended(again.errors[k])])
    ELSE CleanResult(entries, dropped)

\* if cleaned: valid, errors = self.validate_schedule(cleaned, device_id)
revalidated(entries, dropped) ==
    IF entries = <<>> THEN CleanResult(entries, dropped)
    ELSE with_errors_of(validate_schedule(entries), entries, dropped)

\* ScheduleValidator.clean_schedule: (cleaned, warnings), or
\* CleanRaisedTypeError when an exception escapes the call.
clean_schedule(sched) ==
    LET n == Len(sched)
        checks == [i \in 1..n |-> validate_schedule_entry(sched[i], i - 1)]
        rows == [i \in 1..n |-> [chk |-> checks[i], i |-> i]]
        IsBad(r) == ~r.chk.valid
        IsGood(r) == r.chk.valid
        bad == SelectSeq(rows, IsBad)
        good == SelectSeq(rows, IsGood)
        kept == [k \in 1..Len(good) |-> sched[good[k].i]]
        dropped == [k \in 1..Len(bad) |-> EntryInvalid(bad[k].chk.error)]
    IN  IF \E i \in 1..n : checks[i].raised THEN CleanRaisedTypeError
        ELSE revalidated(kept, dropped)

-----------------------------------------------------------------------------
(* Inputs of the validator *)

MaxLen == 3

Walls == {0, 30, 60, 86400, 86460}
SmallWalls == {0, 60, 120, 180}
Fracs == {"", ".500"}
Sfxs == {"", "Z", "+00:00", "+01:00"}

Stamp(w, f, x) == [wall |-> w, frac |-> f, sfx |-> x]
Stamps == {Stamp(w, f, x) : w \in Walls, f \in Fracs, x \in Sfxs}

Entry(s, e, m, r) == [start_time |-> s, end_time |-> e, mode |-> m, rate_kw |-> r]

\* Single entries: every pair of timestamp spellings, modes and rates on
\* both sides of their limits.
RichEntries ==
    {Entry(s, e, PyInt(m), PyInt(r)) :
        s \in Stamps, e \in Stamps, m \in {1, 2, 3}, r \in {0, 1000, 1001}}

\* Entries of multi-entry schedules: structurally valid windows on a
\* one-minute grid, spelled with Z or with an explicit +00:00 offset.
GridEntries ==
    {Entry(Stamp(w[1], "", x), Stamp(w[2], "", x), PyInt(1), PyInt(100)) :
        w \in {p \in SmallWalls \X SmallWalls : p[1] < p[2]}, x \in {"Z", "+00:00"}}

\* Entries that fail one per-entry check or several: no rate_kw; a start
\* no format parses, with a bad mode and rate; an end before the start, with
\* a bad mode; thirty seconds, with a rate too high; a day and a minute; a
\* mode that is a string, with a rate too high; a rate that is None.
FlawedEntries ==
    { [start_time |-> Stamp(0, "", "Z"), end_time |-> Stamp(60, "", "Z"),
       mode |-> PyInt(1)],
      Entry(Stamp(0, ".500", "+00:00"), Stamp(60, "", "Z"), PyInt(3), PyInt(1001)),
      Entry(Stamp(60, "", "Z"), Stamp(0, "", "Z"), PyInt(3), PyInt(100)),
      Entry(Stamp(0, "", "Z"), Stamp(30, "", "Z"), PyInt(1), PyInt(1001)),
      Entry(Stamp(0, "", "Z"), Stamp(86460, "", "Z"), PyInt(1), PyInt(100)),
      Entry(Stamp(0, "", "Z"), Stamp(60, "", "Z"), PyStr(1), PyInt(1001)),
      Entry(Stamp(0, "", "Z"), Stamp(60, "", "Z"), PyInt(1), NoneVal) }

\* Entries that pass every per-entry check: consecutive and overlapping
\* windows, and a rate written as the string "100".
SoundEntries ==
    { Entry(Stamp(0, "", "Z"), Stamp(60, "", "Z"), PyInt(1), PyInt(100)),
      Entry(Stamp(60, "", "Z"), Stamp(120, "", "Z"), PyInt(2), PyInt(50)),
      Entry(Stamp(30, "", "Z"), Stamp(90, "", "Z"), PyInt(2), PyInt(0)),
      Entry(Stamp(120, "", "Z"), Stamp(180, "", "Z"), PyInt(1), PyStr(100)) }

\* Schedules mixing entries that pass with entries that fail.
MixedInputs == UNION {[1..k -> FlawedEntries \cup SoundEntries] : k \in 1..MaxLen}

Inputs ==
    {<<>>} \cup {<<e>> : e \in RichEntries}
           \cup UNION {[1..k -> GridEntries] : k \in 2..MaxLen}
           \cup MixedInputs

-----------------------------------------------------------------------------
(* device_fleet/utils/validation.py *)

local_required_fields == <<"start_time", "end_time", "mode", "rate_kw">>

\* mode not in [1, 2]: list membership by ==; a string never equals a number.
mode_in_1_2(mode) == mode.ty = "int" /\ mode.v \in {1, 2}

\* isinstance(rate, (int, float))
IsInstanceNumber(x) == x.ty = "int"

\* The errors one entry adds, in the order the code appends them.
local_entry_errors(entry, i) ==
    LET Missing(f) == f \notin DOMAIN entry
        miss == SelectSeq(local_required_fields, Missing)
    IN  [k \in 1..Len(miss) |-> Msg("missing_field", i, -1)]
        \o (IF "mode" \in DOMAIN entry /\ ~mode_in_1_2(entry.mode)
            THEN <<Msg("mode_value", i, -1)>> ELSE <<>>)
        \o (IF "rate_kw" \in DOMAIN entry
               /\ (~IsInstanceNumber(entry.rate_kw)
                   \/ entry.rate_kw.v < 0 \/ entry.rate_kw.v > 1000)
            THEN <<Msg("rate_range", i, -1)>> ELSE <<>>)

RECURSIVE local_errors_upto(_, _)
local_errors_upto(sched, n) ==
    IF n = 0 THEN <<>>
    ELSE local_errors_upto(sched, n - 1) \o local_entry_errors(sched[n], n - 1)

\* validate_schedule_locally without "if len(schedule) == 0".
validate_schedule_locally_any_length(sched) ==
    LET errors == local_errors_upto(sched, Len(sched))
    IN  [ok |-> errors = <<>>, errors |-> errors]

validate_schedule_locally(sched) ==
    IF Len(sched) = 0 THEN [ok |-> FALSE, errors |-> <<Msg("empty", -1, -1)>>]
    ELSE LET errors == local_errors_upto(sched, Len(sched))
         IN  [ok |-> errors = <<>>, errors |-> errors]

-----------------------------------------------------------------------------
(* The validator as a state machine: one call of validate_schedule, then   *)
(* the device's check of the same list; or one call of clean_schedule,     *)
(* then the list it returned handed to clean_schedule or validate_schedule *)

NoOutcome == [raised |-> FALSE, ok |-> FALSE, errors |-> <<>>]
NoLocalOutcome == [ok |-> FALSE, errors |-> <<>>]
NoClean == [raised |-> FALSE, cleaned |-> <<>>, warnings |-> <<>>]

Validate ==
    /\ vpc = "ready"
    /\ outcome' = validate_schedule(schedule)
    /\ vpc' = "done"
    /\ UNCHANGED schedule
    /\ UNCHANGED <<local_outcome, cleaned, recleaned>>
    /\ UNCHANGED <<xvars, cvars, avars>>

\* The list the authority validated reaches a device, whose
\* _process_schedule calls validate_schedule_locally on it.
ValidateLocally ==
    /\ vpc = "done"
    /\ local_outcome' = validate_schedule_locally(schedule)
    /\ vpc' = "local"
    /\ UNCHANGED <<schedule, outcome, cleaned, recleaned>>
    /\ UNCHANGED <<xvars, cvars, avars>>

Clean ==
    /\ vpc = "ready"
    /\ cleaned' = clean_schedule(schedule)
    /\ vpc' = "cleaned"
    /\ UNCHANGED <<schedule, outcome, local_outcome, recleaned>>
    /\ UNCHANGED <<xvars, cvars, avars>>

\* clean_schedule called on the list clean_schedule returned.
CleanAgain ==
    /\ vpc = "cleaned" /\ ~cleaned.raised
    /\ recleaned' = clean_schedule(cleaned.cleaned)
    /\ vpc' = "recleaned"
    /\ UNCHANGED <<schedule, outcome, local_outcome, cleaned>>
    /\ UNCHANGED <<xvars, cvars, avars>>

\* validate_schedule called on the list clean_schedule returned.
ValidateCleaned ==
    /\ vpc = "cleaned" /\ ~cleaned.raised
    /\ outcome' = validate_schedule(cleaned.cleaned)
    /\ vpc' = "revalidated"
    /\ UNCHANGED <<schedule, local_outcome, cleaned, recleaned>>
    /\ UNCHANGED <<xvars, cvars, avars>>

NextV == Validate \/ ValidateLocally \/ Clean \/ CleanAgain \/ ValidateCleaned

-----------------------------------------------------------------------------
(* device_fleet/utils/schedule_executor.py *)

\* A realized rate, kept in hundredths of a kW: rate_kw * 0.98 is rate * 98.
Hundredths(n) == [ty |-> "float", v |-> n]

\* _execute_discharge / _execute_charge: the control call.  It raises for a
\* rate that is no number, and when the hardware behind it faults.
control_call_raises(rate_kw, fault) == fault \/ rate_kw.ty # "int"

NoException == [type |-> "", msg |-> ""]

\* What is raised inside the try block of execute_command: ValueError for a
\* mode that equals neither 1 nor 2, else what the control call raises.
raised_in_try(mode, rate_kw, fault) ==
    IF mode \in {PyInt(1), PyInt(2)}
    THEN IF ~control_call_raises(rate_kw, fault) THEN NoException
         ELSE IF rate_kw.ty # "int"
         THEN [type |-> "TypeError", msg |-> "can't multiply sequence by non-int"]
         ELSE [type |-> "OSError", msg |-> "controller fault"]
    ELSE [type |-> "ValueError", msg |-> "Invalid mode"]

\* An except clause that names ValueError only.
except_ValueError(exc) == exc.type = "ValueError"

\* except Exception: ValueError, TypeError and OSError derive from Exception.
except_Exception(exc) == exc.type \in {"ValueError", "TypeError", "OSError"}

\* ScheduleExecutor.execute_command: (success, actual_rate), or the
\* exception that leaves the call.  logged is the message written to the log.
execute_command(mode, rate_kw, fault) ==
    LET exc == raised_in_try(mode, rate_kw, fault)
    IN  IF exc = NoException
        THEN [raised |-> FALSE, success |-> TRUE,
              actual_rate |-> Hundredths(rate_kw.v * (IF mode = PyInt(1) THEN 98 ELSE 97)),
              logged |-> ""]
        ELSE IF except_Exception(exc)
        THEN [raised |-> FALSE, success |-> FALSE, actual_rate |-> NoneVal,
              logged |-> exc.msg]
        ELSE [raised |-> TRUE, success |-> FALSE, actual_rate |-> NoneVal,
              logged |-> exc.msg]

(* One call of execute_command on its own *)
Modes == {PyInt(0), PyInt(1), PyInt(2), PyInt(3), PyStr(1)}
Rates == {PyInt(0), PyInt(50), PyInt(100), PyInt(1000), PyInt(1001), PyStr(100)}
Commands == [mode : Modes, rate_kw : Rates, fault : BOOLEAN]

NoResult == [raised |-> FALSE, success |-> FALSE, actual_rate |-> NoneVal, logged |-> ""]

InitX ==
    /\ command \in Commands
    /\ command_result = NoResult
    /\ xpc = "ready"

-----------------------------------------------------------------------------
(* cloud_backend/services/schedule_service.py *)

MaxCloudRows == 3

CloudRow(device_id, entries, status) ==
    [device_id |-> device_id, schedule |-> entries, status |-> status]

\* select(Schedule).where(device_id == d, status == "active"): positions.
active_of(rows, device_id) ==
    {k \in 1..Len(rows) : rows[k].device_id = device_id /\ rows[k].status = "active"}

\* result.scalar_one_or_none(): the row, None, or MultipleResultsFound.
scalar_one_or_none(rows, ks) ==
    IF ks = {} THEN [raised |-> FALSE, found |-> FALSE, k |-> 0]
    ELSE IF Cardinality(ks) = 1
    THEN [raised |-> FALSE, found |-> TRUE, k |-> CHOOSE k \in ks : TRUE]
    ELSE [raised |-> TRUE, found |-> FALSE, k |-> 0]

NoRet == [op |-> "", device_id |-> "", raised |-> FALSE, found |-> FALSE, schedule |-> <<>>]

-----------------------------------------------------------------------------
(* device_fleet/daemon/battery_daemon.py *)

MaxArrivals == 2
MaxTicks == 2
MaxRestarts == 1

TickSeconds == 30
OwnDevice == "RPI-001"
OtherDevice == "RPI-002"

\* json.dumps / json.loads of a list of entries.
json_dumps(sched) == [json |-> sched]
json_loads(text) == text.json

Row(data, status) == [device_id |-> OwnDevice, schedule_data |-> data, status |-> status]

\* datetime.fromisoformat(s.replace("Z", "+00:00")): aware whenever the
\* string carries Z or an offset.
fromisoformat_z(ts) ==
    [aware |-> ts.sfx # "",
     wall  |-> ts.wall,
     ms    |-> FracMs(ts.frac),
     off   |-> OffsetSeconds(ts.sfx)]

UtcNow(t) == [aware |-> FALSE, wall |-> t, ms |-> 0, off |-> 0]

\* The walk with a window closed at its end: start_time <= now <= end_time.
RECURSIVE scan_from_end_inclusive(_, _, _)
scan_from_end_inclusive(sched, i, t) ==
    IF i > Len(sched) THEN [kind |-> "none", i |-> 0]
    ELSE LET start_time == fromisoformat_z(sched[i].start_time)
             end_time == fromisoformat_z(sched[i].end_time)
         IN  IF ~Comparable(start_time, UtcNow(t)) THEN [kind |-> "raise", i |-> i]
             ELSE IF Key(start_time) <= Key(UtcNow(t))
             THEN IF ~Comparable(UtcNow(t), end_time) THEN [kind |-> "raise", i |-> i]
                  ELSE IF Key(UtcNow(t)) <= Key(end_time) THEN [kind |-> "match", i |-> i]
                  ELSE scan_from_end_inclusive(sched, i + 1, t)
             ELSE scan_from_end_inclusive(sched, i + 1, t)

\* The for loop of _check_and_execute from position i on, at time t:
\* "raise" when start_time <= now < end_time compares the naive now with an
\* aware datetime, "match" at the first entry whose window holds now,
\* "none" when the loop runs out.  now < end_time is evaluated only when
\* start_time <= now is true.
RECURSIVE scan_from(_, _, _)
scan_from(sched, i, t) ==
    IF i > Len(sched) THEN [kind |-> "none", i |-> 0]
    ELSE LET start_time == fromisoformat_z(sched[i].start_time)
             end_time == fromisoformat_z(sched[i].end_time)
         IN  IF ~Comparable(start_time, UtcNow(t)) THEN [kind |-> "raise", i |-> i]
             ELSE IF Key(start_time) <= Key(UtcNow(t))
             THEN IF ~Comparable(UtcNow(t), end_time) THEN [kind |-> "raise", i |-> i]
                  ELSE IF Key(UtcNow(t)) < Key(end_time) THEN [kind |-> "match", i |-> i]
                  ELSE scan_from(sched, i + 1, t)
             ELSE scan_from(sched, i + 1, t)

\* UPDATE schedules SET status = 'inactive' WHERE device_id = ? AND
\* status = 'active', as seen inside the transaction.
update_inactive(rows) ==
    [k \in 1..Len(rows) |->
        IF rows[k].device_id = OwnDevice /\ rows[k].status = "active"
        THEN [rows[k] EXCEPT !.status = "inactive"]
        ELSE rows[k]]

\* INSERT INTO schedules (device_id, schedule_data, status).
insert_active(rows, sched) == Append(rows, Row(json_dumps(sched), "active"))

\* How one call of _store_schedule can end: it commits, a statement raises
\* sqlite3.Error, or the process is killed after the UPDATE and before the
\* INSERT.
StoreEnds == {"commit", "error_in_update", "error_in_insert", "killed_after_update"}

\* A connection on which every statement is committed by itself.
store_schedule_autocommit(rows, sched, ends) ==
    CASE ends = "commit" -> insert_active(update_inactive(rows), sched)
      [] ends = "error_in_update" -> rows
      [] OTHER -> update_inactive(rows)

\* _store_schedule without its UPDATE statement.
store_schedule_insert_only(rows, sched, ends) ==
    IF ends = "commit" THEN insert_active(rows, sched) ELSE rows

\* _store_schedule: the rows of the table after the call.  UPDATE and INSERT
\* run in one transaction; conn.rollback() on sqlite3.Error, and sqlite's
\* recovery after a kill, discard what was not committed.
store_schedule(rows, sched, ends) ==
    IF ends = "commit" THEN insert_active(update_inactive(rows), sched)
    ELSE rows

\* SELECT schedule_data ... WHERE status = 'active' ORDER BY received_at DESC
\* LIMIT 1: the positions of the rows the query may return.
cached_rows(rows) ==
    {k \in 1..Len(rows) :
        /\ rows[k].device_id = OwnDevice /\ rows[k].status = "active"
        /\ \A j \in 1..Len(rows) :
              (rows[j].device_id = OwnDevice /\ rows[j].status = "active") => j <= k}

NoTick == [now |-> 0, sched |-> <<>>, i |-> 0, act |-> 0,
           result |-> NoResult,
           ack |-> [index |-> 0, status |-> "", actual_rate_kw |-> NoneVal,
                    error_message |-> ""]]

(* Schedules that arrive at the agent *)
EntryA == Entry(Stamp(0, "", ""), Stamp(60, "", ""), PyInt(1), PyInt(100))
EntryB == Entry(Stamp(30, "", ""), Stamp(90, "", ""), PyInt(2), PyInt(50))
EntryC == Entry(Stamp(60, "", ""), Stamp(120, "", ""), PyInt(2), PyInt(50))
EntryZ == Entry(Stamp(0, "", "Z"), Stamp(60, "", "Z"), PyInt(1), PyInt(100))
EntryX == Entry(Stamp(0, "", ""), Stamp(60, "", ""), PyInt(3), PyInt(100))

Payloads == { <<>>, <<EntryX>>, <<EntryZ>>, <<EntryA, EntryC>>, <<EntryB, EntryA>> }

InitialDbs == { <<>>, <<Row(json_dumps(<<EntryC>>), "active")>> }

\* How a fetch can fail: status 404, another status, asyncio.TimeoutError,
\* or another exception of the transport.
FetchFailures == {"404", "500", "timeout", "transport"}

\* A poll loop that guards its fetch against a timeout only.
poll_survives_timeout_only(failure) == failure \in {"404", "500", "timeout"}

\* _fetch_schedule logs a 404 and any other status, and catches
\* asyncio.TimeoutError and Exception; _poll_schedules catches Exception.
poll_survives(failure) == TRUE

\* A handler that takes every payload as its own.
addressed_to_anyone(device_id) == TRUE

\* payload.get("device_id") == self.device_id
addressed_to_me(device_id) == device_id = OwnDevice

\* A local validation that is never run.
accepted_unchecked(sched) == TRUE

\* _process_schedule: is_valid of validate_schedule_locally(schedule).
accepted(sched) == validate_schedule_locally(sched).ok

\* The event loop runs one task at a time: a task is entered only while
\* the other one is suspended (asleep or waiting for network I/O).
PollSuspended == poll_pc = "sleep"
ExecSuspended == exec_pc \in {"sleep", "ack", "dead"}

NoStore == [last |-> <<>>, concurrent |-> FALSE, failed |-> FALSE]

InitA(dbs) ==
    /\ now = 0
    /\ running = FALSE
    /\ main_pc = "constructed"
    /\ mqtt_up = FALSE
    /\ current_schedule = <<>>
    /\ db \in dbs
    /\ boot_db = db
    /\ poll_pc = "sleep" /\ poll_sched = <<>>
    /\ mqtt_pc = "idle" /\ mqtt_sched = <<>> /\ mqtt_device = ""
    /\ exec_pc = "sleep" /\ wake_at = 0 /\ tick = NoTick
    /\ executor_calls = <<>> /\ acks = <<>> /\ execution_logs = <<>>
    /\ arrivals = 0 /\ activation = 0 /\ writers = {}
    /\ store_hist = NoStore /\ restarts = 0

\* start(): running = True, then mqtt connect and loop_start, which may fail.
Start ==
    /\ main_pc = "constructed"
    /\ running' = TRUE
    /\ mqtt_up' \in BOOLEAN
    /\ main_pc' = "loading"
    /\ UNCHANGED nonagent
    /\ UNCHANGED <<now, current_schedule, db, boot_db, poll_pc, poll_sched,
                   mqtt_pc, mqtt_sched, mqtt_device, exec_pc, wake_at, tick, executor_calls,
                   acks, execution_logs, arrivals, activation, writers,
                   store_hist, restarts>>

\* _load_cached_schedule, then the tasks are created.
LoadCached ==
    /\ main_pc = "loading"
    /\ \/ /\ cached_rows(db) = {}
          /\ UNCHANGED <<current_schedule, activation, writers>>
       \/ \E k \in cached_rows(db) :
             /\ current_schedule' = json_loads(db[k].schedule_data)
             /\ activation' = activation + 1
             /\ writers' = writers \cup {"loop"}
    /\ main_pc' = "serving"
    /\ UNCHANGED nonagent
    /\ UNCHANGED <<now, running, mqtt_up, db, boot_db, poll_pc, poll_sched,
                   mqtt_pc, mqtt_sched, mqtt_device, exec_pc, wake_at, tick, executor_calls,
                   acks, execution_logs, arrivals, store_hist, restarts>>

\* _fetch_schedule got status 200 with a body: a non-empty schedule goes to
\* _process_schedule, which either returns at the validation or assigns
\* current_schedule and goes on to store.
PollFetchSchedule ==
    /\ main_pc = "serving" /\ PollSuspended /\ ExecSuspended
    /\ arrivals < MaxArrivals
    /\ \E sched \in Payloads :
          IF sched = <<>>
          THEN UNCHANGED <<current_schedule, activation, writers, poll_pc,
                           poll_sched, store_hist>>
          ELSE IF ~accepted(sched)
          THEN /\ poll_pc' = "rejected"
               /\ poll_sched' = sched
               /\ UNCHANGED <<current_schedule, activation, writers, store_hist>>
          ELSE /\ current_schedule' = sched
               /\ activation' = activation + 1
               /\ writers' = writers \cup {"loop"}
               /\ poll_pc' = "store"
               /\ poll_sched' = sched
               /\ store_hist' = [store_hist EXCEPT
                                    !.concurrent = @ \/ mqtt_pc = "store"]
    /\ arrivals' = arrivals + 1
    /\ UNCHANGED nonagent
    /\ UNCHANGED <<now, running, main_pc, mqtt_up, db, boot_db, mqtt_pc,
                   mqtt_sched, mqtt_device, exec_pc, wake_at, tick, executor_calls, acks,
                   execution_logs, restarts>>

\* _fetch_schedule ended with 404, another status, a timeout or a transport
\* error: logged, nothing else.  An exception nobody catches ends the task.
PollFetchFails ==
    /\ main_pc = "serving" /\ PollSuspended /\ ExecSuspended
    /\ arrivals < MaxArrivals
    /\ \E failure \in FetchFailures :
          poll_pc' = IF poll_survives(failure) THEN "failed" ELSE "dead"
    /\ arrivals' = arrivals + 1
    /\ UNCHANGED nonagent
    /\ UNCHANGED <<now, running, main_pc, mqtt_up, current_schedule, db, boot_db,
                   poll_sched, mqtt_pc, mqtt_sched, mqtt_device, exec_pc, wake_at, tick,
                   executor_calls, acks, execution_logs, activation, writers,
                   store_hist, restarts>>

\* The poll task is back at asyncio.sleep(self.poll_interval) after a fetch
\* that failed or a schedule that was rejected.
PollReturn ==
    /\ poll_pc \in {"failed", "rejected"}
    /\ poll_pc' = "sleep"
    /\ poll_sched' = <<>>
    /\ UNCHANGED nonagent
    /\ UNCHANGED <<now, running, main_pc, mqtt_up, current_schedule, db, boot_db,
                   mqtt_pc, mqtt_sched, mqtt_device, exec_pc, wake_at, tick, executor_calls,
                   acks, execution_logs, arrivals, activation, writers,
                   store_hist, restarts>>

\* The process is killed: what it held in memory is gone, the table keeps
\* what was committed.
ProcessKilled ==
    /\ running' = FALSE
    /\ main_pc' = "crashed"
    /\ mqtt_up' = FALSE
    /\ current_schedule' = <<>>
    /\ poll_pc' = "sleep" /\ poll_sched' = <<>>
    /\ mqtt_pc' = "idle" /\ mqtt_sched' = <<>> /\ mqtt_device' = ""
    /\ exec_pc' = "sleep" /\ wake_at' = 0 /\ tick' = NoTick

\* _process_schedule in the poll task: _store_schedule(schedule).
PollStore ==
    /\ poll_pc = "store"
    /\ \E ends \in StoreEnds \ {"killed_after_update"} :
          /\ db' = store_schedule(db, poll_sched, ends)
          /\ store_hist' = IF ends = "commit"
                           THEN [store_hist EXCEPT !.last = poll_sched]
                           ELSE [store_hist EXCEPT !.failed = TRUE]
    /\ poll_pc' = "sleep"
    /\ poll_sched' = <<>>
    /\ writers' = writers \cup {"loop"}
    /\ UNCHANGED nonagent
    /\ UNCHANGED <<now, running, main_pc, mqtt_up, current_schedule, boot_db,
                   mqtt_pc, mqtt_sched, mqtt_device, exec_pc, wake_at, tick, executor_calls,
                   acks, execution_logs, arrivals, activation, restarts>>

\* The process is killed inside that call of _store_schedule, after the
\* UPDATE and before the INSERT.
PollStoreKilled ==
    /\ poll_pc = "store"
    /\ db' = store_schedule(db, poll_sched, "killed_after_update")
    /\ ProcessKilled
    /\ UNCHANGED nonagent
    /\ UNCHANGED <<now, boot_db, executor_calls, acks, execution_logs, arrivals,
                   activation, writers, store_hist, restarts>>

\* _on_mqtt_message on the broker client's thread: a payload for another
\* device is dropped; otherwise _process_schedule runs on this thread, up to
\* the return at the validation or the assignment of current_schedule.
MqttMessage ==
    /\ mqtt_up /\ running /\ mqtt_pc = "idle"
    /\ arrivals < MaxArrivals
    /\ \E device_id \in {OwnDevice, OtherDevice}, sched \in Payloads :
          /\ mqtt_sched' = sched
          /\ mqtt_device' = device_id
          /\ IF ~addressed_to_me(device_id)
             THEN /\ mqtt_pc' = "dropped"
                  /\ UNCHANGED <<current_schedule, activation, writers, store_hist>>
             ELSE IF ~accepted(sched)
             THEN /\ mqtt_pc' = "rejected"
                  /\ UNCHANGED <<current_schedule, activation, writers, store_hist>>
             ELSE /\ current_schedule' = sched
                  /\ activation' = activation + 1
                  /\ writers' = writers \cup {"mqtt"}
                  /\ mqtt_pc' = "store"
                  /\ store_hist' = [store_hist EXCEPT
                                       !.concurrent = @ \/ poll_pc = "store"]
    /\ arrivals' = arrivals + 1
    /\ UNCHANGED nonagent
    /\ UNCHANGED <<now, running, main_pc, mqtt_up, db, boot_db, poll_pc,
                   poll_sched, exec_pc, wake_at, tick, executor_calls, acks,
                   execution_logs, restarts>>

\* The handler returns after a payload it dropped or rejected.
MqttReturn ==
    /\ mqtt_pc \in {"dropped", "rejected"}
    /\ mqtt_pc' = "idle"
    /\ mqtt_sched' = <<>>
    /\ mqtt_device' = ""
    /\ UNCHANGED nonagent
    /\ UNCHANGED <<now, running, main_pc, mqtt_up, current_schedule, db, boot_db,
                   poll_pc, poll_sched, exec_pc, wake_at, tick, executor_calls,
                   acks, execution_logs, arrivals, activation, writers,
                   store_hist, restarts>>

\* _process_schedule on the broker thread: _store_schedule(schedule).
MqttStore ==
    /\ mqtt_pc = "store"
    /\ \E ends \in StoreEnds \ {"killed_after_update"} :
          /\ db' = store_schedule(db, mqtt_sched, ends)
          /\ store_hist' = IF ends = "commit"
                           THEN [store_hist EXCEPT !.last = mqtt_sched]
                           ELSE [store_hist EXCEPT !.failed = TRUE]
    /\ mqtt_pc' = "idle"
    /\ mqtt_sched' = <<>>
    /\ mqtt_device' = ""
    /\ writers' = writers \cup {"mqtt"}
    /\ UNCHANGED nonagent
    /\ UNCHANGED <<now, running, main_pc, mqtt_up, current_schedule, boot_db,
                   poll_pc, poll_sched, exec_pc, wake_at, tick, executor_calls,
                   acks, execution_logs, arrivals, activation, restarts>>

\* The process is killed inside that call of _store_schedule, after the
\* UPDATE and before the INSERT.
MqttStoreKilled ==
    /\ mqtt_pc = "store"
    /\ db' = store_schedule(db, mqtt_sched, "killed_after_update")
    /\ ProcessKilled
    /\ UNCHANGED nonagent
    /\ UNCHANGED <<now, boot_db, executor_calls, acks, execution_logs, arrivals,
                   activation, writers, store_hist, restarts>>

\* The killed process is started again: a new BatteryDaemon on the same
\* database file.
Restart ==
    /\ main_pc = "crashed"
    /\ restarts < MaxRestarts
    /\ restarts' = restarts + 1
    /\ main_pc' = "constructed"
    /\ boot_db' = db
    /\ UNCHANGED nonagent
    /\ UNCHANGED <<now, running, mqtt_up, current_schedule, db, poll_pc,
                   poll_sched, mqtt_pc, mqtt_sched, mqtt_device, exec_pc, wake_at, tick,
                   executor_calls, acks, execution_logs, arrivals, activation,
                   writers, store_hist>>

\* _execute_schedule_loop wakes from sleep(30); with a schedule present
\* _check_and_execute reads now, takes the list current_schedule refers to
\* and walks it.  An exception of the walk leaves _check_and_execute, the
\* loop and asyncio.gather; start() then runs stop().
ExecTick ==
    /\ main_pc = "serving" /\ exec_pc = "sleep" /\ PollSuspended
    /\ now >= wake_at
    /\ IF current_schedule = <<>>
       THEN /\ wake_at' = now + TickSeconds
            /\ UNCHANGED <<exec_pc, tick, running, main_pc, mqtt_up>>
       ELSE LET found == scan_from(current_schedule, 1, now)
            IN  /\ tick' = [NoTick EXCEPT !.now = now, !.sched = current_schedule,
                                          !.i = found.i, !.act = activation]
                /\ CASE found.kind = "raise" ->
                           /\ exec_pc' = "dead"
                           /\ running' = FALSE
                           /\ main_pc' = "stopped"
                           /\ mqtt_up' = FALSE
                           /\ UNCHANGED wake_at
                     [] found.kind = "match" ->
                           /\ exec_pc' = "execute"
                           /\ UNCHANGED <<wake_at, running, main_pc, mqtt_up>>
                     [] OTHER ->
                           /\ wake_at' = now + TickSeconds
                           /\ UNCHANGED <<exec_pc, running, main_pc, mqtt_up>>
    /\ UNCHANGED nonagent
    /\ UNCHANGED <<now, current_schedule, db, boot_db, poll_pc, poll_sched,
                   mqtt_pc, mqtt_sched, mqtt_device, executor_calls, acks, execution_logs,
                   arrivals, activation, writers, store_hist, restarts>>

\* _execute_entry looking the entry up again in self.current_schedule by
\* its index instead of using the entry the walk handed over.
entry_in_flight_reread ==
    IF tick.i <= Len(current_schedule) THEN current_schedule[tick.i]
    ELSE tick.sched[tick.i]

\* The entry _execute_entry works on: the one the walk stopped at.
entry_in_flight == tick.sched[tick.i]

\* An acknowledgement that carries the status alone.
acknowledgement_status_only(index, res) ==
    [index |-> index,
     status |-> IF ~res.raised /\ res.success THEN "success" ELSE "failed",
     actual_rate_kw |-> NoneVal, error_message |-> ""]

\* The arguments _execute_entry hands to _send_acknowledgement on each of
\* its three paths: the command raised, succeeded, or reported failure.
acknowledgement(index, res) ==
    IF res.raised
    THEN [index |-> index, status |-> "failed",
          actual_rate_kw |-> NoneVal, error_message |-> res.logged]
    ELSE IF res.success
    THEN [index |-> index, status |-> "success",
          actual_rate_kw |-> res.actual_rate, error_message |-> ""]
    ELSE [index |-> index, status |-> "failed",
          actual_rate_kw |-> NoneVal,
          error_message |-> "Command execution failed"]

\* _execute_entry up to the acknowledgement: execute_command on the entry's
\* mode and rate, and the acknowledgement built from its result.  Nothing
\* is written to the execution_logs table.
ExecEntry ==
    /\ exec_pc = "execute"
    /\ \E fault \in BOOLEAN :
          LET entry == entry_in_flight
              res == execute_command(entry.mode, entry.rate_kw, fault)
          IN  /\ executor_calls' = Append(executor_calls,
                     [act |-> tick.act, index |-> tick.i - 1, mode |-> entry.mode,
                      rate_kw |-> entry.rate_kw])
              /\ tick' = [tick EXCEPT !.result = res,
                                       !.ack = acknowledgement(tick.i - 1, res)]
    /\ exec_pc' = "ack"
    /\ UNCHANGED nonagent
    /\ UNCHANGED <<now, running, main_pc, mqtt_up, current_schedule, db, boot_db,
                   poll_pc, poll_sched, mqtt_pc, mqtt_sched, mqtt_device, wake_at, acks,
                   execution_logs, arrivals, activation, writers, store_hist,
                   restarts>>

\* _send_acknowledgement: the POST ends with 202, another status or an
\* exception; each is logged only and changes nothing in the daemon.  The
\* tick ends and the loop sleeps.
SendAck ==
    /\ exec_pc = "ack" /\ PollSuspended
    /\ \E response \in {"202", "other", "exception"} :
          acks' = Append(acks, [act |-> tick.act, index |-> tick.ack.index])
    /\ exec_pc' = "sleep"
    /\ wake_at' = now + TickSeconds
    /\ tick' = NoTick
    /\ UNCHANGED nonagent
    /\ UNCHANGED <<now, running, main_pc, mqtt_up, current_schedule, db, boot_db,
                   poll_pc, poll_sched, mqtt_pc, mqtt_sched, mqtt_device, executor_calls,
                   execution_logs, arrivals, activation, writers, store_hist,
                   restarts>>

\* Wall-clock time passes.
Tock ==
    /\ now < MaxTicks * TickSeconds
    /\ now' = now + TickSeconds
    /\ UNCHANGED nonagent
    /\ UNCHANGED <<running, main_pc, mqtt_up, current_schedule, db, boot_db,
                   poll_pc, poll_sched, mqtt_pc, mqtt_sched, mqtt_device, exec_pc, wake_at,
                   tick, executor_calls, acks, execution_logs, arrivals,
                   activation, writers, store_hist, restarts>>

Next ==
    \/ Start \/ LoadCached
    \/ PollFetchSchedule \/ PollFetchFails \/ PollReturn \/ PollStore
    \/ MqttMessage \/ MqttReturn \/ MqttStore
    \/ ExecTick \/ ExecEntry \/ SendAck
    \/ Tock

\* The poll task and the execute task on the event loop.
NextE ==
    \/ Start \/ LoadCached
    \/ PollFetchSchedule \/ PollFetchFails \/ PollReturn \/ PollStore
    \/ ExecTick \/ ExecEntry \/ SendAck
    \/ Tock

\* Receiving, storing and reloading schedules across a kill of the process.
\* The execute task is left out: it neither reads nor writes the table and
\* never assigns current_schedule.
NextR ==
    \/ Start \/ LoadCached
    \/ PollFetchSchedule \/ PollFetchFails \/ PollReturn \/ PollStore
    \/ MqttMessage \/ MqttReturn \/ MqttStore
    \/ PollStoreKilled \/ MqttStoreKilled \/ Restart

-----------------------------------------------------------------------------
(* One call of ScheduleExecutor.execute_command *)

Execute ==
    /\ xpc = "ready"
    /\ command_result' = execute_command(command.mode, command.rate_kw, command.fault)
    /\ xpc' = "done"
    /\ UNCHANGED <<command, vvars, cvars, avars>>

NextX == Execute

-----------------------------------------------------------------------------
(* Calls of ScheduleService, one at a time *)

CloudSchedules == { <<EntryA, EntryC>>, <<EntryC>> }
CloudDevices == {OwnDevice, OtherDevice}

InitC ==
    /\ cloud_rows = <<>>
    /\ cloud_ret = NoRet

create_schedule ==
    /\ Len(cloud_rows) < MaxCloudRows
    /\ \E device_id \in CloudDevices, entries \in CloudSchedules :
          /\ cloud_rows' = Append(cloud_rows, CloudRow(device_id, entries, "active"))
          /\ cloud_ret' = [NoRet EXCEPT !.op = "create", !.device_id = device_id,
                                        !.found = TRUE, !.schedule = entries]
    /\ UNCHANGED <<vvars, xvars, avars>>

get_schedule ==
    /\ \E device_id \in CloudDevices :
          LET r == scalar_one_or_none(cloud_rows, active_of(cloud_rows, device_id))
          IN  cloud_ret' = [NoRet EXCEPT !.op = "get", !.device_id = device_id,
                               !.raised = r.raised, !.found = r.found,
                               !.schedule = IF r.found THEN cloud_rows[r.k].schedule
                                            ELSE <<>>]
    /\ UNCHANGED <<cloud_rows, vvars, xvars, avars>>

update_schedule ==
    /\ Len(cloud_rows) < MaxCloudRows
    /\ \E device_id \in CloudDevices, entries \in CloudSchedules :
          LET r == scalar_one_or_none(cloud_rows, active_of(cloud_rows, device_id))
              old == IF r.found
                     THEN [cloud_rows EXCEPT ![r.k].status = "inactive"]
                     ELSE cloud_rows
          IN  IF r.raised
              THEN /\ cloud_ret' = [NoRet EXCEPT !.op = "update",
                                       !.device_id = device_id, !.raised = TRUE]
                   /\ UNCHANGED cloud_rows
              ELSE /\ cloud_rows' = Append(old, CloudRow(device_id, entries, "active"))
                   /\ cloud_ret' = [NoRet EXCEPT !.op = "update",
                                       !.device_id = device_id, !.found = TRUE,
                                       !.schedule = entries]
    /\ UNCHANGED <<vvars, xvars, avars>>

delete_schedule ==
    /\ \E device_id \in CloudDevices :
          LET r == scalar_one_or_none(cloud_rows, active_of(cloud_rows, device_id))
          IN  /\ cloud_rows' = IF r.found
                               THEN [cloud_rows EXCEPT ![r.k].status = "inactive"]
                               ELSE cloud_rows
              /\ cloud_ret' = [NoRet EXCEPT !.op = "delete", !.device_id = device_id,
                                  !.raised = r.raised]
    /\ UNCHANGED <<vvars, xvars, avars>>

NextC == create_schedule \/ get_schedule \/ update_schedule \/ delete_schedule

-----------------------------------------------------------------------------
(* Specifications *)

\* No validator call and no executor call is in progress.
IdleV ==
    /\ schedule = <<>> /\ outcome = NoOutcome /\ vpc = "idle"
    /\ local_outcome = NoLocalOutcome /\ cleaned = NoClean /\ recleaned = NoClean
IdleX ==
    /\ command = [mode |-> PyInt(1), rate_kw |-> PyInt(0), fault |-> FALSE]
    /\ command_result = NoResult
    /\ xpc = "idle"

\* The validator alone: the daemon stays as constructed.
InitV ==
    /\ schedule \in Inputs
    /\ outcome = NoOutcome
    /\ vpc = "ready"
    /\ local_outcome = NoLocalOutcome /\ cleaned = NoClean /\ recleaned = NoClean
    /\ IdleX
    /\ InitC
    /\ InitA({<<>>})

SpecV == InitV /\ [][NextV]_vars

\* The executor alone.
InitXOnly ==
    /\ InitX
    /\ IdleV
    /\ InitC
    /\ InitA({<<>>})

SpecX == InitXOnly /\ [][NextX]_vars

\* The schedule service alone.
InitCOnly ==
    /\ InitC
    /\ IdleV
    /\ IdleX
    /\ InitA({<<>>})

SpecC == InitCOnly /\ [][NextC]_vars

\* The daemon alone: no validator call is in progress.
Init ==
    /\ InitA(InitialDbs)
    /\ IdleV
    /\ IdleX
    /\ InitC

Spec == Init /\ [][Next]_vars

SpecR == Init /\ [][NextR]_vars

\* The tasks of the event loop with what its scheduling guarantees: a task
\* suspended at an await is resumed once the awaited call has returned,
\* every network call returns or times out (ClientTimeout), and
\* _process_schedule is synchronous code that runs to its end.  The broker
\* thread is left out: it never holds the event loop and touches neither
\* the locals of a tick nor the executor nor an acknowledgement.
FairSpec ==
    /\ Init /\ [][NextE]_vars
    /\ WF_vars(SendAck)
    /\ WF_vars(PollStore) /\ WF_vars(PollReturn)

-----------------------------------------------------------------------------
(* What the claims speak of: the instant a timestamp denotes and the       *)
(* entry invariants of the data model, independent of how the validator    *)
(* computes them.  A timestamp without offset, or with Z, denotes UTC.     *)

Instant(ts) == (ts.wall - OffsetSeconds(ts.sfx)) * 1000 + FracMs(ts.frac)

Duration(e) == Instant(e.end_time) - Instant(e.start_time)

StructurallyValid(e) ==
    /\ \A k \in 1..Len(required_fields) : required_fields[k] \in DOMAIN e
    /\ Instant(e.start_time) < Instant(e.end_time)
    /\ Duration(e) >= 60 * 1000
    /\ Duration(e) <= 24 * 60 * 60 * 1000
    /\ e.mode \in {PyInt(1), PyInt(2)}
    /\ e.rate_kw.ty = "int" /\ e.rate_kw.v >= 0 /\ e.rate_kw.v <= 1000

Overlap(e1, e2) ==
    /\ Instant(e1.start_time) < Instant(e2.end_time)
    /\ Instant(e2.start_time) < Instant(e1.end_time)

AllStructurallyValid == \A i \in 1..Len(schedule) : StructurallyValid(schedule[i])

SomeOverlap ==
    \E i, j \in 1..Len(schedule) : i < j /\ Overlap(schedule[i], schedule[j])

CarriesOffset(ts) == IsOffset(ts.sfx)

\* Some timestamp of the schedule carries an explicit offset and some
\* other does not.
MixesOffsetKinds ==
    LET stamps == {schedule[i].start_time : i \in 1..Len(schedule)}
                  \cup {schedule[i].end_time : i \in 1..Len(schedule)}
    IN  \E a, b \in stamps : CarriesOffset(a) /\ ~CarriesOffset(b)

Returned == vpc = "done" /\ ~outcome.raised

\* errors holds an overlap error naming entries i and j (1-based positions).
Named(i, j) ==
    \E k \in 1..Len(outcome.errors) :
        /\ outcome.errors[k].kind = "overlap"
        /\ {outcome.errors[k].a, outcome.errors[k].b} = {i - 1, j - 1}

\* Every entry passes validate_schedule_entry.
AllPassEntryChecks ==
    \A i \in 1..Len(schedule) :
        LET c == validate_schedule_entry(schedule[i], i - 1)
        IN  ~c.raised /\ c.valid

\* C5: a schedule whose entries all pass the per-entry checks and do not
\* overlap is accepted (ok = true) even when there is a gap between one
\* entry's end and the next entry's start.
C5_GapNeverBlocksAcceptance ==
    (Returned /\ Len(schedule) >= 1 /\ AllPassEntryChecks /\ ~SomeOverlap)
        => outcome.ok

ConsecutiveInStartOrder(i, j) ==
    \A k \in 1..Len(schedule) \ {i, j} :
        \/ Instant(schedule[k].start_time) <
              Instant(schedule[i].start_time) /\
           Instant(schedule[k].start_time) < Instant(schedule[j].start_time)
        \/ Instant(schedule[k].start_time) >
              Instant(schedule[i].start_time) /\
           Instant(schedule[k].start_time) > Instant(schedule[j].start_time)

C7_SweepIsSufficient ==
    (Returned /\ AllStructurallyValid
        /\ (outcome.ok \/ \A k \in 1..Len(outcome.errors) :
                              outcome.errors[k].kind # "overlap"))
        => ~SomeOverlap

\* C7 witness: a schedule of three entries was accepted.
C7_Witness == Returned /\ outcome.ok /\ Len(schedule) >= 3

\* C8: a single structurally valid entry is accepted (ok = true) whatever
\* spellings its start and end use among those the parser accepts.
C8_ValidSingleEntryAccepted ==
    (vpc = "done" /\ Len(schedule) = 1 /\ StructurallyValid(schedule[1])
        /\ parse_timestamp(schedule[1].start_time).ok
        /\ parse_timestamp(schedule[1].end_time).ok)
        => (~outcome.raised /\ outcome.ok)

\* C9: validate returns a structured result for every input and never
\* raises.
C9_ValidateNeverRaises == vpc = "done" => ~outcome.raised

\* The ACTIVE rows of the agent's own device.
ActiveRows(rows) ==
    {k \in 1..Len(rows) : rows[k].device_id = OwnDevice /\ rows[k].status = "active"}

-----------------------------------------------------------------------------
(* Claims about the error list, clean and the two validators side by side *)

\* The check a message kind belongs to.
CheckOf(kind) ==
    CASE kind = "missing_field" -> "missing field"
      [] kind = "timestamp_format" -> "unparseable timestamp"
      [] kind = "start_before_end" -> "start not before end"
      [] kind \in {"too_short", "too_long"} -> "duration out of bounds"
      [] kind \in {"mode_type", "mode_value"} -> "mode"
      [] kind \in {"rate_type", "rate_low", "rate_high"} -> "rate"
      [] OTHER -> "whole schedule"

\* The per-entry check an entry fails first, in the order missing field,
\* unparseable timestamp, start not before end, duration out of bounds,
\* mode, rate; "none" for an entry that fails none of them.
FirstFailingCheck(e) ==
    IF \E k \in 1..Len(required_fields) : required_fields[k] \notin DOMAIN e
    THEN "missing field"
    ELSE IF ~parse_timestamp(e.start_time).ok \/ ~parse_timestamp(e.end_time).ok
    THEN "unparseable timestamp"
    ELSE IF Instant(e.start_time) >= Instant(e.end_time) THEN "start not before end"
    ELSE IF Duration(e) < 60 * 1000 \/ Duration(e) > 24 * 60 * 60 * 1000
    THEN "duration out of bounds"
    ELSE IF e.mode \notin {PyInt(1), PyInt(2)} THEN "mode"
    ELSE IF e.rate_kw.ty = "none" \/ e.rate_kw.v < 0 \/ e.rate_kw.v > 1000 THEN "rate"
    ELSE "none"

\* The positions of the error messages that speak of an overlap.
OverlapMessages ==
    {k \in 1..Len(outcome.errors) :
        outcome.errors[k].kind \in {"overlap", "overlap_warning"}}

\* C21: an empty schedule is never accepted: validate([]) and the agent's
\* local validation of [] both return ok = false, and a poll or a push that
\* delivers an empty entry list leaves the agent's active schedule (in
\* memory and in the store) unchanged and starts no replacement, as long as
\* the process is not killed.
C21_EmptyNeverAccepted ==
    /\ ~validate_schedule(<<>>).raised /\ ~validate_schedule(<<>>).ok
    /\ ~validate_schedule_locally(<<>>).ok
    /\ [][ /\ ((mqtt_pc = "idle" /\ mqtt_pc' # "idle" /\ mqtt_sched' = <<>>)
                 => (mqtt_pc' \in {"dropped", "rejected"}
                     /\ UNCHANGED <<current_schedule, db, activation>>))
            /\ ((mqtt_pc # "idle" /\ mqtt_sched = <<>> /\ mqtt_pc' # mqtt_pc
                    /\ main_pc' # "crashed")
                 => (mqtt_pc' = "idle"
                     /\ UNCHANGED <<current_schedule, db, activation>>))
            /\ ((arrivals' # arrivals /\ poll_pc' = poll_pc /\ mqtt_pc' = mqtt_pc)
                 => UNCHANGED <<current_schedule, db, activation, poll_sched>>)
            /\ ((poll_pc' # poll_pc /\ poll_pc' # "sleep")
                 => (poll_sched' # <<>> \/ poll_pc' = "failed"))
          ]_vars

\* C21 witness: the push handler has an empty entry list addressed to this
\* device in hand, rejected, while the agent holds an active schedule.
C21_Witness ==
    /\ mqtt_pc = "rejected" /\ mqtt_device = OwnDevice /\ mqtt_sched = <<>>
    /\ current_schedule # <<>> /\ ActiveRows(db) # {}

\* C22: clean is a fixed point: applying clean to the entry list returned
\* by clean returns the same entry list in the same order and reports no
\* individually-invalid entry.
C22_CleanIsFixedPoint ==
    vpc = "recleaned" =>
        /\ ~recleaned.raised
        /\ recleaned.cleaned = cleaned.cleaned
        /\ \A k \in 1..Len(recleaned.warnings) : ~recleaned.warnings[k].wrapped

\* C22 witness: clean dropped an entry and kept two or more that
\* validate_schedule objects to as a set; clean ran again on what was kept.
C22_Witness ==
    /\ vpc = "recleaned"
    /\ Len(cleaned.cleaned) >= 2 /\ Len(cleaned.cleaned) < Len(schedule)
    /\ recleaned.warnings # <<>>

\* C23: every schedule accepted by the authority's validate is also
\* accepted by the agent's validate_schedule_locally, whatever the types of
\* the mode and rate_kw values.
C23_AuthorityAcceptedIsLocallyAccepted ==
    (vpc = "local" /\ ~outcome.raised /\ outcome.ok) => local_outcome.ok

\* C24: for a two-entry schedule whose structurally valid entries overlap,
\* in either input order, a validate that returns has ok = false and errors
\* holds exactly one message about an overlap, naming both entries.
C24_ExactlyOneOverlapMessage ==
    (Returned /\ Len(schedule) = 2 /\ AllStructurallyValid
        /\ Overlap(schedule[1], schedule[2])) =>
        /\ ~outcome.ok
        /\ Cardinality(OverlapMessages) = 1
        /\ \A k \in OverlapMessages :
              {outcome.errors[k].a, outcome.errors[k].b} = {0, 1}

\* C25: validate reports exactly one error for each entry that fails a
\* per-entry check, that of the check it fails first in the order missing
\* field, unparseable timestamp, start not before end, duration out of
\* bounds, mode, rate, whatever the entries before and after it; errors of
\* the overlap and gap checks appear only when no entry failed.
C25_OneErrorPerInvalidEntry ==
    (vpc = "done" /\ schedule # <<>>) =>
        LET invalid == {i \in 1..Len(schedule) : FirstFailingCheck(schedule[i]) # "none"}
        IN  /\ ~outcome.raised
            /\ IF invalid = {}
               THEN \A k \in 1..Len(outcome.errors) :
                        CheckOf(outcome.errors[k].kind) = "whole schedule"
               ELSE /\ ~outcome.ok
                    /\ Len(outcome.errors) = Cardinality(invalid)
                    /\ \A i \in invalid : \E k \in 1..Len(outcome.errors) :
                          /\ outcome.errors[k].a = i - 1
                          /\ CheckOf(outcome.errors[k].kind) = FirstFailingCheck(schedule[i])

\* C30: whenever clean returns a non-empty entry list, validate accepts
\* that list.
C30_CleanedListIsAccepted ==
    (vpc = "revalidated" /\ cleaned.cleaned # <<>>) => (~outcome.raised /\ outcome.ok)

-----------------------------------------------------------------------------
(* Claims about the daemon *)

\* C1: under one activation of a schedule the executor is invoked at most
\* once for any given entry, however many ticks fall inside its window and
\* whether the first invocation succeeded or failed.
C1_DispatchAtMostOnce ==
    \A a, b \in 1..Len(executor_calls) :
        (a # b /\ executor_calls[a].act = executor_calls[b].act)
            => executor_calls[a].index # executor_calls[b].index

\* C2: the broker client's thread never assigns current_schedule and never
\* writes the local store; only the loop context does.
C2_BrokerThreadNeverWrites == "mqtt" \notin writers

\* C3: every active schedule has entries with start < end that are pairwise
\* non-overlapping.
C3_ActiveScheduleNonOverlapping ==
    /\ \A i \in 1..Len(current_schedule) :
          Instant(current_schedule[i].start_time) < Instant(current_schedule[i].end_time)
    /\ \A i, j \in 1..Len(current_schedule) :
          i < j => ~Overlap(current_schedule[i], current_schedule[j])

\* C4: no tick raises an unhandled error that ends the execute loop.
C4_ExecuteLoopNeverDies == exec_pc # "dead"

\* now lies in the entry's window [start, end).
InWindow(e, t) == Instant(e.start_time) <= t * 1000 /\ t * 1000 < Instant(e.end_time)

\* C10: within one tick the entry matched, executed and acknowledged is one
\* entry of the one list the walk started on, whatever current_schedule has
\* become since: the executor gets the mode and rate of that entry, whose
\* window holds the tick's now, and the acknowledgement carries its index.
C10_TickUsesOneVersion ==
    exec_pc = "ack" =>
        LET call == executor_calls[Len(executor_calls)]
            e == tick.sched[tick.i]
        IN  /\ call.mode = e.mode /\ call.rate_kw = e.rate_kw
            /\ call.index = tick.i - 1 /\ call.act = tick.act
            /\ tick.ack.index = tick.i - 1
            /\ InWindow(e, tick.now)
            /\ \A k \in 1..(tick.i - 1) : ~InWindow(tick.sched[k], tick.now)

\* C10 witness: an acknowledgement is in flight for an entry of a list that
\* current_schedule no longer refers to; the replacement holds another
\* entry at that index.
C10_Witness ==
    /\ exec_pc = "ack"
    /\ activation > tick.act
    /\ tick.i <= Len(current_schedule)
    /\ current_schedule[tick.i] # tick.sched[tick.i]

-----------------------------------------------------------------------------
(* Claims about the agent's store, its arrivals and the executor *)

\* C11: once no call of _store_schedule is in progress and some call has
\* committed, the table has exactly one ACTIVE row: the row written last,
\* holding the whole schedule of the call that committed last, also when a
\* poll-driven and a push-driven replacement were in progress together.
C11_LastWriteWins ==
    (poll_pc # "store" /\ mqtt_pc # "store" /\ store_hist.last # <<>>) =>
        /\ ActiveRows(db) = {Len(db)}
        /\ json_loads(db[Len(db)].schedule_data) = store_hist.last
        /\ store_hist.last \in Payloads

\* C11 witness: a poll-driven and a push-driven replacement were in
\* progress together and both have committed.
C11_Witness ==
    /\ store_hist.concurrent
    /\ poll_pc = "sleep" /\ mqtt_pc = "idle"
    /\ restarts = 0 /\ main_pc = "serving"
    /\ Len(db) = Len(boot_db) + 2

\* C12: the table never has two ACTIVE rows for the device, and has
\* exactly one as soon as it has any row, that is once any call of
\* _store_schedule has committed, whatever calls raised a storage error or
\* were cut off between UPDATE and INSERT.
C12_OneActiveRow ==
    /\ Cardinality(ActiveRows(db)) <= 1
    /\ db # <<>> => Cardinality(ActiveRows(db)) = 1

\* C12 witness: a call was cut off between its UPDATE and its INSERT on a
\* table that had an ACTIVE row, after an earlier call of this run had
\* committed.
C12_Witness ==
    /\ main_pc = "crashed"
    /\ store_hist.last # <<>>
    /\ Len(db) > Len(boot_db)

\* C13: no device has two ACTIVE rows in the authority's table.
C13_AtMostOneActivePerDevice ==
    \A device_id \in CloudDevices :
        Cardinality(active_of(cloud_rows, device_id)) <= 1

\* C14: the execution history holds one record for every invocation of the
\* executor.
C14_OneRecordPerInvocation == Len(execution_logs) = Len(executor_calls)

\* A schedule that the agent's rules reject: empty, or with an entry whose
\* mode is not 1 or 2 or whose rate is no number in 0..1000.
FailsAgentRules(sched) ==
    \/ sched = <<>>
    \/ \E i \in 1..Len(sched) :
          \/ {"start_time", "end_time", "mode", "rate_kw"} \ DOMAIN sched[i] # {}
          \/ sched[i].mode \notin {PyInt(1), PyInt(2)}
          \/ sched[i].rate_kw.ty # "int"
          \/ sched[i].rate_kw.v < 0 \/ sched[i].rate_kw.v > 1000

\* C15: a step in which the poll task or the broker thread takes up a
\* schedule that fails the agent's rules, and the step in which it returns
\* from it, leave current_schedule and the table as they were.
C15_RejectedLeavesActive ==
    [][ /\ (poll_pc = "sleep" /\ poll_pc' \in {"rejected", "store"}
               /\ FailsAgentRules(poll_sched'))
            => UNCHANGED <<current_schedule, db>>
        /\ (mqtt_pc = "idle" /\ mqtt_pc' \in {"rejected", "store"}
               /\ FailsAgentRules(mqtt_sched'))
            => UNCHANGED <<current_schedule, db>>
        /\ (poll_pc = "rejected" /\ poll_pc' # "rejected")
            => (poll_pc' = "sleep" /\ UNCHANGED <<current_schedule, db>>)
        /\ (mqtt_pc = "rejected" /\ mqtt_pc' # "rejected")
            => (mqtt_pc' = "idle" /\ UNCHANGED <<current_schedule, db>>)
      ]_vars

\* C15 witness: a pushed schedule with an entry of mode 3 has just been
\* rejected while another schedule is in force and stored.
C15_Witness ==
    /\ mqtt_pc = "rejected" /\ mqtt_sched = <<EntryX>>
    /\ current_schedule # <<>>
    /\ ActiveRows(db) # {}

\* C16: a fetch that fails leaves current_schedule, the table, the execute
\* task and the daemon as they were; the poll task never ends on it and
\* goes back to its sleep, from where it fetches again.
C16_FailedPollChangesNothing ==
    [][ /\ poll_pc' # "dead"
        /\ (poll_pc = "sleep" /\ poll_pc' = "failed")
            => UNCHANGED <<current_schedule, db, exec_pc, running, main_pc>>
        /\ (poll_pc = "failed" /\ poll_pc' # "failed")
            => (poll_pc' = "sleep"
                /\ UNCHANGED <<current_schedule, db, exec_pc, running, main_pc>>)
      ]_vars

\* C16 witness: a fetch has just failed while a schedule is in force and
\* stored, and the daemon is running.
C16_Witness ==
    /\ poll_pc = "failed"
    /\ current_schedule # <<>> /\ ActiveRows(db) # {}
    /\ running /\ main_pc = "serving"

\* C17: the acknowledgement built after a failed control call has status
\* failed and carries the message of the failure.
C17_FailedAckCarriesCause ==
    (exec_pc = "ack" /\ ~tick.result.success) =>
        /\ tick.ack.status = "failed"
        /\ tick.ack.error_message = tick.result.logged

\* C18: execute_command returns for every mode, rate and fault; it returns
\* (false, None) whenever the mode is outside {1, 2} or the control call
\* raises, and (true, a rate) otherwise.
C18_ExecuteNeverRaises ==
    xpc = "done" =>
        /\ ~command_result.raised
        /\ IF \/ command.mode \notin {PyInt(1), PyInt(2)}
              \/ command.fault \/ command.rate_kw.ty # "int"
           THEN ~command_result.success /\ command_result.actual_rate = NoneVal
           ELSE command_result.success /\ command_result.actual_rate # NoneVal

\* C18 witness: the control call raised something other than ValueError
\* and the call returned (false, None).
C18_Witness ==
    /\ xpc = "done"
    /\ command.mode = PyInt(2) /\ command.fault
    /\ ~command_result.raised /\ ~command_result.success

\* C19: no fetch is issued before the cached schedule is loaded, and the
\* schedule that _load_cached_schedule assigns is the one of the ACTIVE row
\* the table had when the process was started.
C19_LoadsLastStoredBeforeFetch ==
    [][ /\ poll_pc' # poll_pc => main_pc = "serving"
        /\ (main_pc = "loading" /\ main_pc' = "serving" /\ ActiveRows(boot_db) # {})
            => \E k \in cached_rows(boot_db) :
                  current_schedule' = json_loads(boot_db[k].schedule_data)
      ]_vars

\* C20: a step in which the broker thread takes up or leaves a payload of
\* another device changes neither current_schedule nor the table.
C20_ForeignPayloadDiscarded ==
    [][ /\ (mqtt_pc = "idle" /\ mqtt_pc' # "idle" /\ mqtt_device' # OwnDevice)
            => UNCHANGED <<current_schedule, db>>
        /\ (mqtt_pc # "idle" /\ mqtt_device # OwnDevice /\ mqtt_pc' # mqtt_pc)
            => (mqtt_pc' = "idle" /\ UNCHANGED <<current_schedule, db>>)
      ]_vars

\* C20 witness: a payload of another device carrying a schedule the agent
\* would accept has been dropped; the schedule in force is another one.
C20_Witness ==
    /\ mqtt_pc = "dropped" /\ mqtt_device = OtherDevice
    /\ accepted(mqtt_sched)
    /\ current_schedule # mqtt_sched


-----------------------------------------------------------------------------
(* Claims about storage errors, the execute tick and its acknowledgement *)

\* C26: when a call of _store_schedule for an accepted schedule ends with a
\* storage error (it inserts no row), the poll task and the broker handler
\* go on as after a successful call, the in-memory schedule is the schedule
\* of that call, and the table is what it was before the call, so it still
\* holds the previous ACTIVE schedule.
C26_StoreErrorKeepsMemoryNewStoreOld ==
    [][ /\ ((poll_pc = "store" /\ poll_pc' # "store" /\ main_pc' # "crashed"
                /\ Len(db') = Len(db))
             => /\ poll_pc' = "sleep"
                /\ UNCHANGED <<running, main_pc, mqtt_up, db>>
                /\ current_schedule' = poll_sched)
        /\ ((mqtt_pc = "store" /\ mqtt_pc' # "store" /\ main_pc' # "crashed"
                /\ Len(db') = Len(db))
             => /\ mqtt_pc' = "idle"
                /\ UNCHANGED <<running, main_pc, mqtt_up, db>>
                /\ current_schedule' = mqtt_sched)
      ]_vars

\* C27: the executor is invoked only inside a tick that found
\* current_schedule non-empty, only for an entry of that list whose window
\* holds the tick's now (start <= now < end), and only for the first such
\* entry in list order; a tick makes at most one invocation.
C27_TickExecutesFirstEntryInWindow ==
    [][ /\ ((exec_pc = "sleep" /\ exec_pc' = "execute")
             => (current_schedule # <<>> /\ tick'.sched = current_schedule
                 /\ tick'.now = now))
        /\ (executor_calls' # executor_calls
             => /\ exec_pc = "execute" /\ exec_pc' = "ack"
                /\ Len(executor_calls') = Len(executor_calls) + 1
                /\ LET call == executor_calls'[Len(executor_calls')]
                   IN  /\ call.index + 1 \in 1..Len(tick.sched)
                       /\ call.mode = tick.sched[call.index + 1].mode
                       /\ call.rate_kw = tick.sched[call.index + 1].rate_kw
                       /\ InWindow(tick.sched[call.index + 1], tick.now)
                       /\ \A k \in 1..call.index : ~InWindow(tick.sched[k], tick.now))
        /\ (exec_pc = "ack" => exec_pc' \in {"ack", "sleep"})
      ]_vars

\* C27 witness: now lies in the windows of the first and the second entry
\* of the list the tick walks, and the executor was invoked for the first.
C27_Witness ==
    /\ exec_pc = "ack" /\ tick.i = 1 /\ Len(tick.sched) >= 2
    /\ InWindow(tick.sched[1], tick.now) /\ InWindow(tick.sched[2], tick.now)
    /\ executor_calls[Len(executor_calls)].index = 0

\* C28: every executor invocation is followed by exactly one
\* acknowledgement send attempt for the same entry index: the
\* acknowledgements attempted so far are those of the invocations made so
\* far, in order, but for the invocation whose acknowledgement is being
\* built; that acknowledgement has status success and the realized rate
\* when the executor succeeded, and status failed, a null rate and an error
\* message when it did not; and it is sent.
C28_EveryInvocationAcknowledgedOnce ==
    /\ [](/\ Len(executor_calls) = Len(acks) + (IF exec_pc = "ack" THEN 1 ELSE 0)
          /\ \A k \in 1..Len(acks) :
                /\ acks[k].index = executor_calls[k].index
                /\ acks[k].act = executor_calls[k].act
          /\ exec_pc = "ack" =>
                /\ tick.ack.index = executor_calls[Len(executor_calls)].index
                /\ IF tick.result.success
                   THEN /\ tick.ack.status = "success"
                        /\ tick.ack.actual_rate_kw = tick.result.actual_rate
                        /\ tick.ack.actual_rate_kw # NoneVal
                   ELSE /\ tick.ack.status = "failed"
                        /\ tick.ack.actual_rate_kw = NoneVal
                        /\ tick.ack.error_message # "")
    /\ (exec_pc = "ack") ~> (exec_pc = "sleep")

\* C28 witness: the acknowledgement of an invocation that failed is being
\* built after the acknowledgement of an earlier invocation was attempted.
C28_Witness ==
    /\ exec_pc = "ack" /\ ~tick.result.success
    /\ Len(acks) >= 1 /\ Len(executor_calls) = Len(acks) + 1

\* C29: once no replacement and no startup load is in progress and no call
\* of _store_schedule has ended in an error, the in-memory schedule equals
\* the entries of the ACTIVE row of the local table.
C29_MemoryEqualsActiveRow ==
    (main_pc = "serving" /\ poll_pc # "store" /\ mqtt_pc # "store"
        /\ ~store_hist.failed /\ ActiveRows(db) # {})
        => \E k \in ActiveRows(db) :
              current_schedule = json_loads(db[k].schedule_data)
=============================================================================
